---- MODULE Spec2Model ----
(***************************************************************************)
(* Sprint / Task board handlers of the project-based learning backend      *)
(* (backend/app/api/v1/endpoints/tasks.py) together with the               *)
(* authentication dependency (backend/app/api/deps.py).                    *)
(*                                                                         *)
(* Every handler is an operator from the request and the current storage   *)
(* to an outcome [code, sprints, tasks]; the action of the handler stores  *)
(* that outcome.  Python None is Null / NullId, a field absent from a      *)
(* PATCH body (pydantic "unset") is Unset / UnsetId.                       *)
(***************************************************************************)
EXTENDS Integers, FiniteSets, Sequences, TLC

VARIABLES sprints, tasks, projects, topics, members, nextSprintId, nextTaskId, last,
          inflight

vars == <<sprints, tasks, projects, topics, members, nextSprintId, nextTaskId, last,
          inflight>>
db == <<sprints, tasks, projects, topics, members, nextSprintId, nextTaskId>>

\* ---------------------------------------------------------------- bounds
MaxSprints == 2
MaxTasks == 1
MaxProjects == 1

\* ------------------------------------------------------- value encoding
Null == "<null>"
Unset == "<unset>"
NullId == -1
UnsetId == -2

\* Python truthiness of an Optional[str] / Optional[int] / Optional[UUID]
TruthyStr(v) == v # Null /\ v # ""
TruthyId(v) == v # NullId /\ v # 0

\* attribute access on a pydantic body: an unset field reads as its default None
GetStr(v) == IF v = Unset THEN Null ELSE v

\* str.upper() on the role names that occur in the roles table
Upper(s) ==
    CASE s \in {"Student", "student", "STUDENT"} -> "STUDENT"
      [] s \in {"Lecturer", "lecturer", "LECTURER"} -> "LECTURER"
      [] s \in {"Admin", "admin", "ADMIN"} -> "ADMIN"
      [] s \in {"Staff", "staff", "STAFF"} -> "STAFF"
      [] s \in {"Head_Dept", "head_dept", "HEAD_DEPT"} -> "HEAD_DEPT"
      [] s \in {"approved", "Approved", "APPROVED"} -> "APPROVED"
      [] s \in {"pending", "Pending", "PENDING"} -> "PENDING"
      [] s \in {"draft", "Draft", "DRAFT"} -> "DRAFT"
      [] s \in {"rejected", "Rejected", "REJECTED"} -> "REJECTED"
      [] OTHER -> s

\* str.lower() on the task status strings that occur
Lower(s) ==
    CASE s \in {"todo", "Todo", "TODO"} -> "todo"
      [] s \in {"doing", "Doing", "DOING"} -> "doing"
      [] s \in {"done", "Done", "DONE"} -> "done"
      [] OTHER -> s

\* ------------------------------------------------------ fixed storage
\* User rows joined to their role (users and roles are not written by the
\* handlers modelled here).
Users == {"alice", "bob", "carol", "lec", "adm", "dave", "erin", "john", "frank", "stef", "hod"}
UserRow(u) ==
    CASE u = "alice" -> [role_id |-> 5, role_name |-> "Student", is_active |-> TRUE]
      [] u = "bob" -> [role_id |-> 5, role_name |-> "STUDENT", is_active |-> TRUE]
      [] u = "carol" -> [role_id |-> 5, role_name |-> "student", is_active |-> TRUE]
      [] u = "lec" -> [role_id |-> 4, role_name |-> "Lecturer", is_active |-> TRUE]
      [] u = "adm" -> [role_id |-> 1, role_name |-> "Admin", is_active |-> TRUE]
      [] u = "dave" -> [role_id |-> 5, role_name |-> "Student", is_active |-> FALSE]
      [] u = "erin" -> [role_id |-> 4, role_name |-> "Lecturer", is_active |-> FALSE]
      [] u = "john" -> [role_id |-> 9, role_name |-> "LECTURER", is_active |-> TRUE]
      [] u = "frank" -> [role_id |-> 5, role_name |-> "Student", is_active |-> TRUE]
      [] u = "stef" -> [role_id |-> 2, role_name |-> "Staff", is_active |-> TRUE]
      [] u = "hod" -> [role_id |-> 3, role_name |-> "Head_Dept", is_active |-> TRUE]

\* Team rows: team_id -> leader_id
Teams == {1, 2}
TeamLeader(t) == IF t = 1 THEN "alice" ELSE "bob"

\* Topic rows: topic_id -> status; AcademicClass rows
Topics == {1, 2, 3}
TopicStatus(t) == CASE t = 1 -> "Approved" [] t = 2 -> "pending" [] t = 3 -> Null
InitTopics == [t \in Topics |-> TopicStatus(t)]
TopicStatusEnum == {"draft", "pending", "approved", "rejected"}
Classes == {1, 2}

\* TeamMember rows; student_id references any User row
InitMembers ==
    { [team_id |-> 1, student_id |-> "alice", is_active |-> TRUE],
      [team_id |-> 1, student_id |-> "adm", is_active |-> TRUE],
      [team_id |-> 1, student_id |-> "frank", is_active |-> TRUE],
      [team_id |-> 2, student_id |-> "bob", is_active |-> TRUE],
      [team_id |-> 1, student_id |-> "bob", is_active |-> FALSE] }

\* ------------------------------------------------------------- requests
Tok(u) == [kind |-> "ok", sub |-> u]

TeamIdInputs == Teams \cup {3}
SprintIdInputs == 1..(MaxSprints + 1)
TaskIdInputs == 1..(MaxTasks + 1)

SprintStatusEnum == {"planned", "active", "completed"}
TaskStatusEnum == {"todo", "doing", "done"}
PriorityEnum == {"low", "medium", "high"}

\* --------------------------------------------------------------- outcome
\* status code, the stored rows after the request and the response body
NoBody == [none |-> TRUE]
Outcome(c, s, t) ==
    [code |-> c, sprints |-> s, tasks |-> t, projects |-> projects, topics |-> topics,
     resp |-> NoBody]
Fail(c) == Outcome(c, sprints, tasks)

\* ------------------------------------------------------------- deps.py
\* jwt.decode followed by payload.get("sub")
DecodeSub(token) == IF token.kind # "ok" THEN "JWTError" ELSE token.sub

\* the outcome of identity resolution: status code, the principal returned
\* and the number of storage reads issued
Identity(c, u, n) == [code |-> c, user |-> u, reads |-> n]

get_current_user_NoActiveCheck(token) ==
    LET user_id == DecodeSub(token) IN
    IF user_id = "JWTError" \/ user_id = Null THEN Identity(401, Null, 0)
    ELSE IF user_id \notin Users THEN Identity(401, Null, 1)
    ELSE Identity(200, user_id, 1)

get_current_user_UnknownForbidden(token) ==
    LET user_id == DecodeSub(token) IN
    IF user_id = "JWTError" \/ user_id = Null THEN Identity(401, Null, 0)
    ELSE IF user_id \notin Users \/ ~UserRow(user_id).is_active
         THEN Identity(403, Null, 1)
    ELSE Identity(200, user_id, 1)

get_current_user_NoExpiry(token) ==
    LET user_id == IF token.kind = "expired" THEN token.sub ELSE DecodeSub(token) IN
    IF user_id = "JWTError" \/ user_id = Null THEN Identity(401, Null, 0)
    ELSE IF user_id \notin Users THEN Identity(401, Null, 1)
    ELSE IF ~UserRow(user_id).is_active THEN Identity(403, Null, 1)
    ELSE Identity(200, user_id, 1)

get_current_user(token) ==
    LET user_id == DecodeSub(token) IN
    IF user_id = "JWTError" \/ user_id = Null THEN Identity(401, Null, 0)
    ELSE IF user_id \notin Users THEN Identity(401, Null, 1)
    ELSE IF ~UserRow(user_id).is_active THEN Identity(403, Null, 1)
    ELSE Identity(200, user_id, 1)

\* role.upper() for role in allowed_roles
UpperAll(allowed_roles) == {Upper(role) : role \in allowed_roles}

require_role_ExactCase(token, allowed_roles) ==
    LET a == get_current_user(token) IN
    IF a.code # 200 THEN Fail(a.code)
    ELSE IF Upper(UserRow(a.user).role_name) \notin allowed_roles THEN Fail(403)
    ELSE Fail(200)

\* require_role(*allowed_roles) applied to a request: role_checker
require_role(token, allowed_roles) ==
    LET a == get_current_user(token) IN
    IF a.code # 200 THEN Fail(a.code)
    ELSE IF Upper(UserRow(a.user).role_name) \notin UpperAll(allowed_roles) THEN Fail(403)
    ELSE Fail(200)

require_lecturer(token) ==
    LET a == get_current_user(token) IN
    IF a.code # 200 THEN Fail(a.code)
    ELSE IF Upper(UserRow(a.user).role_name) # "LECTURER" THEN Fail(403)
    ELSE Fail(200)

require_student(token) ==
    LET a == get_current_user(token) IN
    IF a.code # 200 THEN Fail(a.code)
    ELSE IF Upper(UserRow(a.user).role_name) # "STUDENT" THEN Fail(403)
    ELSE Fail(200)

require_admin(token) ==
    LET a == get_current_user(token) IN
    IF a.code # 200 THEN Fail(a.code)
    ELSE IF Upper(UserRow(a.user).role_name) # "ADMIN" THEN Fail(403)
    ELSE Fail(200)

IsStudent_NotLecturer(u) == Upper(UserRow(u).role_name) # "LECTURER"

\* current_user.role.role_name.upper() == "STUDENT"
IsStudent(u) == Upper(UserRow(u).role_name) = "STUDENT"

\* ------------------------------------------------------------ tasks.py
verify_team_member_AnyRow(team_id, user_id) ==
    \E m \in members : m.team_id = team_id /\ m.student_id = user_id

verify_team_member(team_id, user_id) ==
    \E m \in members :
        m.team_id = team_id /\ m.student_id = user_id /\ m.is_active = TRUE

\* the request schema keeps team_id and drops every key it does not declare
SprintCreate(raw) == [team_id |-> raw.team_id]

create_sprint_NoTeamLookup(token, sprint_in) ==
    LET a == get_current_user(token) IN
    IF a.code # 200 THEN Fail(a.code)
    ELSE IF ~IsStudent(a.user) THEN Fail(403)
    ELSE IF ~verify_team_member(sprint_in.team_id, a.user) THEN Fail(403)
    ELSE LET new_sprint == [team_id |-> sprint_in.team_id, status |-> "planned"] IN
         [Outcome(201, (nextSprintId :> new_sprint) @@ sprints, tasks)
            EXCEPT !.resp = [sprint_id |-> nextSprintId,
                             team_id |-> new_sprint.team_id,
                             status |-> new_sprint.status,
                             task_count |-> 0]]

create_sprint(token, sprint_in) ==
    LET a == get_current_user(token) IN
    IF a.code # 200 THEN Fail(a.code)
    ELSE IF ~IsStudent(a.user) THEN Fail(403)
    ELSE IF sprint_in.team_id \notin Teams THEN Fail(404)
    ELSE IF ~verify_team_member(sprint_in.team_id, a.user) THEN Fail(403)
    ELSE LET new_sprint == [team_id |-> sprint_in.team_id, status |-> "planned"] IN
         [Outcome(201, (nextSprintId :> new_sprint) @@ sprints, tasks)
            EXCEPT !.resp = [sprint_id |-> nextSprintId,
                             team_id |-> new_sprint.team_id,
                             status |-> new_sprint.status,
                             task_count |-> 0]]

SprintAccess_MembersOnly(token, sprint_id) ==
    LET a == get_current_user(token) IN
    IF a.code # 200 THEN Fail(a.code)
    ELSE IF sprint_id \notin DOMAIN sprints THEN Fail(404)
    ELSE IF ~verify_team_member(sprints[sprint_id].team_id, a.user) THEN Fail(403)
    ELSE Fail(200)

\* the access rule shared by the sprint read handlers
SprintAccess(token, sprint_id) ==
    LET a == get_current_user(token) IN
    IF a.code # 200 THEN Fail(a.code)
    ELSE IF sprint_id \notin DOMAIN sprints THEN Fail(404)
    ELSE IF IsStudent(a.user)
            /\ ~verify_team_member(sprints[sprint_id].team_id, a.user)
         THEN Fail(403)
    ELSE Fail(200)

list_sprints(token, team_id) ==
    LET a == get_current_user(token) IN
    IF a.code # 200 THEN Fail(a.code)
    ELSE IF team_id \notin Teams THEN Fail(404)
    ELSE IF IsStudent(a.user) /\ ~verify_team_member(team_id, a.user) THEN Fail(403)
    ELSE Fail(200)

get_sprint(token, sprint_id) == SprintAccess(token, sprint_id)

ValidSprintStatus(status) ==
    ~(TruthyStr(status) /\ status \notin SprintStatusEnum)

\* model_dump(exclude_unset=True) followed by setattr on every dumped field
IsSet(body, f) ==
    f \in DOMAIN body /\ (IF f = "sprint_id" THEN body[f] # UnsetId ELSE body[f] # Unset)

\* model_dump() without exclude_unset: every declared field, unset ones as None
ApplyUpdate_DumpAll(row, body) ==
    [f \in DOMAIN row |->
        IF f \notin DOMAIN body THEN row[f]
        ELSE IF IsSet(body, f) THEN body[f]
        ELSE IF f = "sprint_id" THEN NullId ELSE Null]

ApplyUpdate(row, body) ==
    [f \in DOMAIN row |-> IF IsSet(body, f) THEN body[f] ELSE row[f]]

update_sprint_ForwardOnly(token, sprint_id, sprint_in) ==
    LET a == get_current_user(token) IN
    IF a.code # 200 THEN Fail(a.code)
    ELSE IF sprint_id \notin DOMAIN sprints THEN Fail(404)
    ELSE IF IsStudent(a.user)
            /\ ~verify_team_member(sprints[sprint_id].team_id, a.user)
         THEN Fail(403)
    ELSE IF ~ValidSprintStatus(GetStr(sprint_in.status)) THEN Fail(400)
    ELSE IF \/ /\ sprints[sprint_id].status = "completed"
               /\ GetStr(sprint_in.status) \in {"planned", "active"}
            \/ /\ sprints[sprint_id].status = "active"
               /\ GetStr(sprint_in.status) = "planned"
         THEN Fail(400)
    ELSE Outcome(200,
                 [sprints EXCEPT ![sprint_id] = ApplyUpdate(@, sprint_in)],
                 tasks)

update_sprint(token, sprint_id, sprint_in) ==
    LET a == get_current_user(token) IN
    IF a.code # 200 THEN Fail(a.code)
    ELSE IF sprint_id \notin DOMAIN sprints THEN Fail(404)
    ELSE IF IsStudent(a.user)
            /\ ~verify_team_member(sprints[sprint_id].team_id, a.user)
         THEN Fail(403)
    ELSE IF ~ValidSprintStatus(GetStr(sprint_in.status)) THEN Fail(400)
    ELSE Outcome(200,
                 [sprints EXCEPT ![sprint_id] = ApplyUpdate(@, sprint_in)],
                 tasks)

\* rows of a deleted sprint's tasks: the relationship is not cascaded, the
\* children lose their parent
OrphanTasks(sprint_id) ==
    [t \in DOMAIN tasks |->
        IF tasks[t].sprint_id = sprint_id
        THEN [tasks[t] EXCEPT !.sprint_id = NullId] ELSE tasks[t]]

delete_sprint_MemberMayDelete(token, sprint_id) ==
    LET a == get_current_user(token) IN
    IF a.code # 200 THEN Fail(a.code)
    ELSE IF sprint_id \notin DOMAIN sprints THEN Fail(404)
    ELSE IF IsStudent(a.user)
            /\ ~verify_team_member(sprints[sprint_id].team_id, a.user)
         THEN Fail(403)
    ELSE Outcome(204,
                 [s \in DOMAIN sprints \ {sprint_id} |-> sprints[s]],
                 OrphanTasks(sprint_id))

delete_sprint(token, sprint_id) ==
    LET a == get_current_user(token) IN
    IF a.code # 200 THEN Fail(a.code)
    ELSE IF sprint_id \notin DOMAIN sprints THEN Fail(404)
    ELSE IF IsStudent(a.user) /\ TeamLeader(sprints[sprint_id].team_id) # a.user
         THEN Fail(403)
    ELSE Outcome(204,
                 [s \in DOMAIN sprints \ {sprint_id} |-> sprints[s]],
                 OrphanTasks(sprint_id))

\* Task.sprint relationship: the parent row, if any
HasSprint(task) == task.sprint_id \in DOMAIN sprints

\* the membership gate of the task handlers (skipped when task.sprint is None)
TaskGate(user, task) ==
    ~(HasSprint(task)
      /\ IsStudent(user)
      /\ ~verify_team_member(sprints[task.sprint_id].team_id, user))

create_task_NoMemberCheck(token, task_in) ==
    LET a == get_current_user(token) IN
    IF a.code # 200 THEN Fail(a.code)
    ELSE IF ~IsStudent(a.user) THEN Fail(403)
    ELSE IF ~TruthyId(task_in.sprint_id) THEN Fail(400)
    ELSE IF task_in.sprint_id \notin DOMAIN sprints THEN Fail(404)
    ELSE LET team_id == sprints[task_in.sprint_id].team_id IN
         IF TruthyStr(task_in.assignee_id)
               /\ ~verify_team_member(team_id, task_in.assignee_id)
         THEN Fail(400)
         ELSE Outcome(201, sprints,
                      (nextTaskId :>
                          [sprint_id |-> task_in.sprint_id,
                           assignee_id |-> task_in.assignee_id,
                           priority |-> IF TruthyStr(task_in.priority)
                                        THEN task_in.priority ELSE "medium",
                           status |-> "todo"]) @@ tasks)

create_task_NoAssigneeCheck(token, task_in) ==
    LET a == get_current_user(token) IN
    IF a.code # 200 THEN Fail(a.code)
    ELSE IF ~IsStudent(a.user) THEN Fail(403)
    ELSE IF ~TruthyId(task_in.sprint_id) THEN Fail(400)
    ELSE IF task_in.sprint_id \notin DOMAIN sprints THEN Fail(404)
    ELSE LET team_id == sprints[task_in.sprint_id].team_id IN
         IF ~verify_team_member(team_id, a.user) THEN Fail(403)
         ELSE Outcome(201, sprints,
                      (nextTaskId :>
                          [sprint_id |-> task_in.sprint_id,
                           assignee_id |-> task_in.assignee_id,
                           priority |-> IF TruthyStr(task_in.priority)
                                        THEN task_in.priority ELSE "medium",
                           status |-> "todo"]) @@ tasks)

create_task(token, task_in) ==
    LET a == get_current_user(token) IN
    IF a.code # 200 THEN Fail(a.code)
    ELSE IF ~IsStudent(a.user) THEN Fail(403)
    ELSE IF ~TruthyId(task_in.sprint_id) THEN Fail(400)
    ELSE IF task_in.sprint_id \notin DOMAIN sprints THEN Fail(404)
    ELSE LET team_id == sprints[task_in.sprint_id].team_id IN
         IF ~verify_team_member(team_id, a.user) THEN Fail(403)
         ELSE IF TruthyStr(task_in.assignee_id)
                 /\ ~verify_team_member(team_id, task_in.assignee_id)
              THEN Fail(400)
         ELSE Outcome(201, sprints,
                      (nextTaskId :>
                          [sprint_id |-> task_in.sprint_id,
                           assignee_id |-> task_in.assignee_id,
                           priority |-> IF TruthyStr(task_in.priority)
                                        THEN task_in.priority ELSE "medium",
                           status |-> "todo"]) @@ tasks)

list_tasks_by_sprint(token, sprint_id) == SprintAccess(token, sprint_id)

\* (task.status or "todo").lower(), then the if / elif chain of the board
BoardColumn(task) ==
    LET task_status == Lower(IF TruthyStr(task.status) THEN task.status ELSE "todo") IN
    IF task_status \in {"todo", "doing", "done"} THEN task_status ELSE "backlog"

\* the rows selected by Task.sprint_id == sprint_id, and one column of them
\* (a column is the set of the task ids it lists)
BoardRows(sprint_id) == {t \in DOMAIN tasks : tasks[t].sprint_id = sprint_id}
BoardList(sprint_id, column) ==
    {t \in BoardRows(sprint_id) : BoardColumn(tasks[t]) = column}

get_task_board_NoDoing(token, sprint_id) ==
    LET r == SprintAccess(token, sprint_id) IN
    IF r.code # 200 THEN r
    ELSE [r EXCEPT !.resp = [todo |-> BoardList(sprint_id, "todo"),
                             doing |-> {},
                             done |-> BoardList(sprint_id, "done"),
                             backlog |-> BoardList(sprint_id, "backlog")]]

get_task_board(token, sprint_id) ==
    LET r == SprintAccess(token, sprint_id) IN
    IF r.code # 200 THEN r
    ELSE [r EXCEPT !.resp = [todo |-> BoardList(sprint_id, "todo"),
                             doing |-> BoardList(sprint_id, "doing"),
                             done |-> BoardList(sprint_id, "done"),
                             backlog |-> BoardList(sprint_id, "backlog")]]

get_task(token, task_id) ==
    LET a == get_current_user(token) IN
    IF a.code # 200 THEN Fail(a.code)
    ELSE IF task_id \notin DOMAIN tasks THEN Fail(404)
    ELSE IF ~TaskGate(a.user, tasks[task_id]) THEN Fail(403)
    ELSE [Fail(200) EXCEPT !.resp = [task_id |-> task_id,
                                     sprint_id |-> tasks[task_id].sprint_id,
                                     assignee_id |-> tasks[task_id].assignee_id,
                                     status |-> tasks[task_id].status]]

ValidTaskStatus(status) ==
    ~(TruthyStr(status) /\ status \notin TaskStatusEnum)

ValidPriority(priority) ==
    ~(TruthyStr(priority) /\ priority \notin PriorityEnum)

\* the assignee check of update_task, made against the task's current sprint
AssigneeOk(task, assignee_id) ==
    ~(TruthyStr(assignee_id)
      /\ HasSprint(task)
      /\ ~verify_team_member(sprints[task.sprint_id].team_id, assignee_id))

\* Task.sprint_id -> Sprint foreign key, enforced by the store at commit
SprintFkOk(row) == row.sprint_id = NullId \/ row.sprint_id \in DOMAIN sprints

\* the field loop and the commit moved in front of the assignee check
update_task_WriteThenCheck(token, task_id, task_in) ==
    LET a == get_current_user(token) IN
    IF a.code # 200 THEN Fail(a.code)
    ELSE IF task_id \notin DOMAIN tasks THEN Fail(404)
    ELSE IF ~TaskGate(a.user, tasks[task_id]) THEN Fail(403)
    ELSE IF ~ValidTaskStatus(GetStr(task_in.status)) THEN Fail(400)
    ELSE IF ~ValidPriority(GetStr(task_in.priority)) THEN Fail(400)
    ELSE LET row == ApplyUpdate(tasks[task_id], task_in) IN
         IF ~SprintFkOk(row) THEN Fail(500)
         ELSE IF ~AssigneeOk(tasks[task_id], GetStr(task_in.assignee_id))
              THEN Outcome(400, sprints, [tasks EXCEPT ![task_id] = row])
         ELSE Outcome(200, sprints, [tasks EXCEPT ![task_id] = row])

update_task_RecheckAssignee(token, task_id, task_in) ==
    LET a == get_current_user(token) IN
    IF a.code # 200 THEN Fail(a.code)
    ELSE IF task_id \notin DOMAIN tasks THEN Fail(404)
    ELSE IF ~TaskGate(a.user, tasks[task_id]) THEN Fail(403)
    ELSE IF ~ValidTaskStatus(GetStr(task_in.status)) THEN Fail(400)
    ELSE IF ~ValidPriority(GetStr(task_in.priority)) THEN Fail(400)
    ELSE LET row == ApplyUpdate(tasks[task_id], task_in) IN
         IF ~AssigneeOk(tasks[task_id], row.assignee_id) THEN Fail(400)
         ELSE IF ~SprintFkOk(row) THEN Fail(500)
         ELSE Outcome(200, sprints, [tasks EXCEPT ![task_id] = row])

update_task(token, task_id, task_in) ==
    LET a == get_current_user(token) IN
    IF a.code # 200 THEN Fail(a.code)
    ELSE IF task_id \notin DOMAIN tasks THEN Fail(404)
    ELSE IF ~TaskGate(a.user, tasks[task_id]) THEN Fail(403)
    ELSE IF ~ValidTaskStatus(GetStr(task_in.status)) THEN Fail(400)
    ELSE IF ~ValidPriority(GetStr(task_in.priority)) THEN Fail(400)
    ELSE IF ~AssigneeOk(tasks[task_id], GetStr(task_in.assignee_id)) THEN Fail(400)
    ELSE LET row == ApplyUpdate(tasks[task_id], task_in) IN
         IF ~SprintFkOk(row) THEN Fail(500)
         ELSE Outcome(200, sprints, [tasks EXCEPT ![task_id] = row])

StatusOnlyValid(status) == status \in TaskStatusEnum

update_task_status(token, task_id, status_update) ==
    LET a == get_current_user(token) IN
    IF a.code # 200 THEN Fail(a.code)
    ELSE IF task_id \notin DOMAIN tasks THEN Fail(404)
    ELSE IF ~TaskGate(a.user, tasks[task_id]) THEN Fail(403)
    ELSE IF ~StatusOnlyValid(status_update.status) THEN Fail(400)
    ELSE Outcome(200, sprints,
                 [tasks EXCEPT ![task_id].status = status_update.status])

\* create_task as the two steps a concurrent request takes.  The read step is
\* every check of the handler (role, sprint lookup, membership of the caller
\* and of the assignee), on the rows as they are then; the commit step is
\* `db.add(new_task); await db.commit()`: the INSERT, which the store refuses
\* when the row's sprint_id names no sprint any more.
create_task_read(token, task_in) == create_task(token, task_in).code

create_task_commit(task_in) ==
    LET row == [sprint_id |-> task_in.sprint_id,
                assignee_id |-> task_in.assignee_id,
                priority |-> IF TruthyStr(task_in.priority)
                             THEN task_in.priority ELSE "medium",
                status |-> "todo"] IN
    IF ~SprintFkOk(row) THEN Fail(500)
    ELSE Outcome(201, sprints, (nextTaskId :> row) @@ tasks)

\* update_task_status as the two steps a concurrent request takes.  The read
\* step is everything up to the assignment: the dependency, the SELECT of the
\* task, the membership check and the enum check, on the rows as they are
\* then.  The commit step is `task.status = ...; await db.commit()` on the
\* object loaded by the read step: the session is created with
\* autoflush=False, so the UPDATE goes out at commit, and the unit of work
\* writes only the attributes whose value differs from the loaded one.
update_task_status_read(token, task_id, status_update) ==
    update_task_status(token, task_id, status_update).code

update_task_status_commit_Versioned(loaded, task_id, status_update) ==
    IF task_id \notin DOMAIN tasks THEN Fail(500)
    ELSE IF tasks[task_id] # loaded THEN Fail(409)
    ELSE IF status_update.status = loaded.status THEN Fail(200)
    ELSE Outcome(200, sprints,
                 [tasks EXCEPT ![task_id].status = status_update.status])

update_task_status_commit(loaded, task_id, status_update) ==
    IF task_id \notin DOMAIN tasks THEN Fail(500)
    ELSE IF status_update.status = loaded.status THEN Fail(200)
    ELSE Outcome(200, sprints,
                 [tasks EXCEPT ![task_id].status = status_update.status])

delete_task(token, task_id) ==
    LET a == get_current_user(token) IN
    IF a.code # 200 THEN Fail(a.code)
    ELSE IF task_id \notin DOMAIN tasks THEN Fail(404)
    ELSE IF ~TaskGate(a.user, tasks[task_id]) THEN Fail(403)
    ELSE Outcome(204, sprints, [t \in DOMAIN tasks \ {task_id} |-> tasks[t]])

\* the aggregate query names Integer, which the module never imports: the
\* handler raises NameError once the access checks have passed
get_sprint_statistics(token, sprint_id) ==
    LET r == SprintAccess(token, sprint_id) IN
    IF r.code # 200 THEN r ELSE Fail(500)

\* ---------------------------------------------------------- projects.py
\* Project.class_id -> AcademicClass foreign key, enforced by the store at commit
ClassFkOk(payload) == payload.class_id \in Classes

create_project_TopicStatus(token, payload) ==
    LET a == get_current_user(token) IN
    IF a.code # 200 THEN Fail(a.code)
    ELSE IF UserRow(a.user).role_id # 4 THEN Fail(403)
    ELSE IF payload.topic_id \notin DOMAIN topics THEN Fail(404)
    ELSE IF TruthyStr(topics[payload.topic_id])
            /\ Upper(topics[payload.topic_id]) # "APPROVED"
         THEN Fail(400)
    ELSE IF ~ClassFkOk(payload) THEN Fail(500)
    ELSE [Fail(201) EXCEPT !.projects =
            Append(projects, [topic_id |-> payload.topic_id,
                              class_id |-> payload.class_id,
                              status |-> topics[payload.topic_id]])]

create_project(token, payload) ==
    LET a == get_current_user(token) IN
    IF a.code # 200 THEN Fail(a.code)
    ELSE IF UserRow(a.user).role_id # 4 THEN Fail(403)
    ELSE IF payload.topic_id \notin DOMAIN topics THEN Fail(404)
    ELSE IF TruthyStr(topics[payload.topic_id])
            /\ Upper(topics[payload.topic_id]) # "APPROVED"
         THEN Fail(400)
    ELSE IF ~ClassFkOk(payload) THEN Fail(500)
    ELSE [Fail(201) EXCEPT !.projects =
            Append(projects, [topic_id |-> payload.topic_id,
                              class_id |-> payload.class_id,
                              status |-> "active"])]

list_projects(token) == Fail(get_current_user(token).code)

get_project(token, project_id) ==
    LET a == get_current_user(token) IN
    IF a.code # 200 THEN Fail(a.code)
    ELSE IF project_id \notin DOMAIN projects THEN Fail(404)
    ELSE Fail(200)

\* ------------------------------------------------------------- actions
\* requests that run concurrently: each worker serves one request, which is
\* idle, in flight between its read and its commit, or answered
Workers == {1, 2}
Idle == [pc |-> "idle", op |-> "none", tok |-> Tok(Null), id |-> 0, body |-> NoBody,
         loaded |-> NoBody, code |-> 0, turn |-> 0]
Answered(c) == [Idle EXCEPT !.pc = "done", !.code = c]

\* how many of the concurrent requests have committed so far; a request that
\* commits records its turn in that order
Commits == Cardinality({w \in Workers : inflight[w].turn > 0})

\* what the last request was: handler, credential, the id it addressed, its
\* body and the status code it produced (id is 0 and the body empty when
\* authentication failed: the handler body never saw them)
Last(op, token, id, body, r) ==
    [op |-> op, tok |-> token,
     id |-> IF get_current_user(token).code # 200 THEN 0 ELSE id,
     body |-> IF get_current_user(token).code # 200 THEN NoBody ELSE body,
     code |-> r.code,
     resp |-> r.resp]

Store(op, token, id, body, r) ==
    /\ sprints' = r.sprints
    /\ tasks' = r.tasks
    /\ projects' = r.projects
    /\ topics' = r.topics
    /\ last' = Last(op, token, id, body, r)
    /\ UNCHANGED <<members, inflight>>

Serve(op, token, id, body, r) ==
    /\ Store(op, token, id, body, r)
    /\ UNCHANGED <<nextSprintId, nextTaskId>>

\* Each action takes the credentials and request values it is driven with.
\* The role gates alone, in front of an endpoint that does nothing else
RequireRole(T, AllowedSets) ==
    \E token \in T, allowed_roles \in AllowedSets :
        Serve("require_role", token, 0, [allowed |-> allowed_roles],
              require_role(token, allowed_roles))

RequireLecturer(T) ==
    \E token \in T : Serve("require_lecturer", token, 0, NoBody, require_lecturer(token))

RequireStudent(T) ==
    \E token \in T : Serve("require_student", token, 0, NoBody, require_student(token))

RequireAdmin(T) ==
    \E token \in T : Serve("require_admin", token, 0, NoBody, require_admin(token))

\* The dependency alone: what a handler receives as current_user
GetCurrentUser(T) ==
    \E token \in T :
        LET a == get_current_user(token) IN
        Serve("get_current_user", token, 0, NoBody,
              [Fail(a.code) EXCEPT !.resp =
                  [user |-> a.user,
                   role_name |-> IF a.code = 200 THEN UserRow(a.user).role_name ELSE Null,
                   reads |-> a.reads]])

CreateSprint(T, Raws) ==
    \E token \in T, raw \in Raws :
        LET r == create_sprint(token, SprintCreate(raw)) IN
        /\ r.code = 201 => nextSprintId <= MaxSprints
        /\ Store("create_sprint", token, raw.team_id, raw, r)
        /\ nextSprintId' = IF r.code = 201 THEN nextSprintId + 1 ELSE nextSprintId
        /\ UNCHANGED nextTaskId

ListSprints(T, TeamIds) ==
    \E token \in T, team_id \in TeamIds :
        Serve("list_sprints", token, team_id, NoBody, list_sprints(token, team_id))

GetSprint(T, Ids) ==
    \E token \in T, sprint_id \in Ids :
        Serve("get_sprint", token, sprint_id, NoBody, get_sprint(token, sprint_id))

UpdateSprint(T, Ids, Bodies) ==
    \E token \in T, sprint_id \in Ids, sprint_in \in Bodies :
        Serve("update_sprint", token, sprint_id, sprint_in, update_sprint(token, sprint_id, sprint_in))

DeleteSprint(T, Ids) ==
    \E token \in T, sprint_id \in Ids :
        Serve("delete_sprint", token, sprint_id, NoBody, delete_sprint(token, sprint_id))

CreateTask(T, Bodies) ==
    \E token \in T, task_in \in Bodies :
        LET r == create_task(token, task_in) IN
        /\ r.code = 201 => nextTaskId <= MaxTasks
        /\ Store("create_task", token, task_in.sprint_id, task_in, r)
        /\ nextTaskId' = IF r.code = 201 THEN nextTaskId + 1 ELSE nextTaskId
        /\ UNCHANGED nextSprintId

ListTasksBySprint(T, Ids) ==
    \E token \in T, sprint_id \in Ids :
        Serve("list_tasks_by_sprint", token, sprint_id, NoBody, list_tasks_by_sprint(token, sprint_id))

GetTaskBoard(T, Ids) ==
    \E token \in T, sprint_id \in Ids :
        Serve("get_task_board", token, sprint_id, NoBody, get_task_board(token, sprint_id))

GetTask(T, Ids) ==
    \E token \in T, task_id \in Ids :
        Serve("get_task", token, task_id, NoBody, get_task(token, task_id))

UpdateTask(T, Ids, Bodies) ==
    \E token \in T, task_id \in Ids, task_in \in Bodies :
        Serve("update_task", token, task_id, task_in, update_task(token, task_id, task_in))

UpdateTaskStatus(T, Ids, Bodies) ==
    \E token \in T, task_id \in Ids, status_update \in Bodies :
        Serve("update_task_status", token, task_id, status_update,
              update_task_status(token, task_id, status_update))

DeleteTask(T, Ids) ==
    \E token \in T, task_id \in Ids :
        Serve("delete_task", token, task_id, NoBody, delete_task(token, task_id))

GetSprintStatistics(T, Ids) ==
    \E token \in T, sprint_id \in Ids :
        Serve("get_sprint_statistics", token, sprint_id, NoBody,
              get_sprint_statistics(token, sprint_id))

CreateProject(T, Payloads) ==
    \E token \in T, payload \in Payloads :
        LET r == create_project(token, payload) IN
        /\ r.code = 201 => Len(projects) < MaxProjects
        /\ Serve("create_project", token, payload.topic_id, payload, r)

ListProjects(T) ==
    \E token \in T :
        Serve("list_projects", token, 0, NoBody, list_projects(token))

GetProject(T, Ids) ==
    \E token \in T, project_id \in Ids :
        Serve("get_project", token, project_id, NoBody, get_project(token, project_id))

\* a topic is reviewed: its status moves within the topic status enum (topic
\* management, outside these handlers)
ReviewTopic(Ids, Statuses) ==
    \E topic_id \in Ids, status \in Statuses :
        /\ topic_id \in DOMAIN topics
        /\ topics' = [topics EXCEPT ![topic_id] = status]
        /\ last' = [op |-> "review_topic", tok |-> Tok(Null),
                    id |-> topic_id, body |-> [status |-> status], code |-> 200,
                    resp |-> NoBody]
        /\ UNCHANGED <<sprints, tasks, projects, members, nextSprintId, nextTaskId,
                       inflight>>

\* the membership row of one of these users is deactivated (team management,
\* outside these handlers)
DeactivateMember(Who) ==
    \E m \in members :
        /\ m.student_id \in Who
        /\ m.is_active
        /\ members' = (members \ {m}) \cup {[m EXCEPT !.is_active = FALSE]}
        /\ last' = [op |-> "deactivate_member", tok |-> Tok(m.student_id),
                    id |-> m.team_id, body |-> NoBody, code |-> 200, resp |-> NoBody]
        /\ UNCHANGED <<sprints, tasks, projects, topics, nextSprintId, nextTaskId,
                       inflight>>

\* One request of a concurrent pair: its read step answers at once when a
\* check fails, and otherwise leaves the request in flight with the row it
\* loaded; its commit step writes and answers.
CreateTaskRead(W, T, Bodies) ==
    \E w \in W, token \in T, task_in \in Bodies :
        LET c == create_task_read(token, task_in) IN
        /\ inflight[w].pc = "idle"
        /\ IF c # 201
           THEN /\ last' = Last("create_task", token, task_in.sprint_id, task_in, Fail(c))
                /\ inflight' = [inflight EXCEPT ![w] = Answered(c)]
           ELSE /\ inflight' = [inflight EXCEPT ![w] =
                                   [pc |-> "loaded", op |-> "create_task",
                                    tok |-> token, id |-> task_in.sprint_id,
                                    body |-> task_in,
                                    loaded |-> [team_id |-> sprints[task_in.sprint_id].team_id,
                                                members |-> members],
                                    code |-> 0, turn |-> 0]]
                /\ UNCHANGED last
        /\ UNCHANGED db

CreateTaskCommit(W) ==
    \E w \in W :
        /\ inflight[w].pc = "loaded"
        /\ inflight[w].op = "create_task"
        /\ LET q == inflight[w]
               r == create_task_commit(q.body) IN
           /\ r.code = 201 => nextTaskId <= MaxTasks
           /\ tasks' = r.tasks
           /\ nextTaskId' = IF r.code = 201 THEN nextTaskId + 1 ELSE nextTaskId
           /\ last' = [op |-> q.op, tok |-> q.tok, id |-> q.id, body |-> q.body,
                       code |-> r.code, resp |-> [task_id |-> nextTaskId]]
           /\ inflight' = [inflight EXCEPT ![w] = [q EXCEPT !.pc = "done",
                                                            !.code = r.code,
                                                            !.turn = Commits + 1]]
        /\ UNCHANGED <<sprints, projects, topics, members, nextSprintId>>

UpdateTaskStatusRead(W, T, Ids, Bodies) ==
    \E w \in W, token \in T, task_id \in Ids, status_update \in Bodies :
        LET c == update_task_status_read(token, task_id, status_update) IN
        /\ inflight[w].pc = "idle"
        /\ IF c # 200
           THEN /\ last' = Last("update_task_status", token, task_id, status_update,
                                 Fail(c))
                /\ inflight' = [inflight EXCEPT ![w] = Answered(c)]
           ELSE /\ inflight' = [inflight EXCEPT ![w] =
                                   [pc |-> "loaded", op |-> "update_task_status",
                                    tok |-> token, id |-> task_id,
                                    body |-> status_update,
                                    loaded |-> tasks[task_id], code |-> 0,
                                    turn |-> 0]]
                /\ UNCHANGED last
        /\ UNCHANGED db

UpdateTaskStatusCommit(W) ==
    \E w \in W :
        /\ inflight[w].pc = "loaded"
        /\ inflight[w].op = "update_task_status"
        /\ LET q == inflight[w]
               r == update_task_status_commit(q.loaded, q.id, q.body) IN
           /\ tasks' = r.tasks
           /\ last' = [op |-> q.op, tok |-> q.tok, id |-> q.id, body |-> q.body,
                       code |-> r.code, resp |-> NoBody]
           /\ inflight' = [inflight EXCEPT ![w] = [q EXCEPT !.pc = "done",
                                                            !.code = r.code,
                                                            !.turn = Commits + 1]]
        /\ UNCHANGED <<sprints, projects, topics, members, nextSprintId, nextTaskId>>

Init ==
    /\ sprints = <<>>
    /\ tasks = <<>>
    /\ projects = <<>>
    /\ topics = InitTopics
    /\ members = InitMembers
    /\ nextSprintId = 1
    /\ nextTaskId = 1
    /\ last = [op |-> "init", tok |-> Tok(Null), id |-> 0, body |-> NoBody, code |-> 0,
               resp |-> NoBody]
    /\ inflight = [w \in Workers |-> Idle]

\* ------------------------------------------------------ request values
ProjectIdInputs == 1..(MaxProjects + 1)

Students == {Tok("alice"), Tok("bob"), Tok("carol")}
Staff == {Tok("lec"), Tok("adm")}
Inactive == {Tok("dave"), Tok("erin")}

\* ---------------------------------------------------------------------
\* Spec: every sprint, task and project handler, driven by active and
\* deactivated principals of both kinds of role; bodies carry valid values.
\* ---------------------------------------------------------------------
GateSprintBodies == [status : {"active"}]
GateTaskCreateBodies ==
    [sprint_id : {1}, assignee_id : {Null}, priority : {"medium"}]
GateTaskUpdateBodies ==
    [assignee_id : {Unset}, priority : {Unset}, status : {"done"}, sprint_id : {UnsetId}]
GateStatusBodies == [status : {"done"}]
GatePayloads == [topic_id : {1}, class_id : {1}]
Writers == Inactive \cup {Tok("alice")}

Next ==
    \/ CreateSprint(Writers, [team_id : {1}])
    \/ ListSprints(Inactive, {1})
    \/ GetSprint(Inactive, SprintIdInputs)
    \/ UpdateSprint(Writers, SprintIdInputs, GateSprintBodies)
    \/ DeleteSprint(Writers, SprintIdInputs)
    \/ CreateTask(Writers, GateTaskCreateBodies)
    \/ ListTasksBySprint(Inactive, SprintIdInputs)
    \/ GetTaskBoard(Inactive, SprintIdInputs)
    \/ GetTask(Inactive, TaskIdInputs)
    \/ UpdateTask(Writers, TaskIdInputs, GateTaskUpdateBodies)
    \/ UpdateTaskStatus(Inactive, TaskIdInputs, GateStatusBodies)
    \/ DeleteTask(Writers, TaskIdInputs)
    \/ GetSprintStatistics(Inactive, SprintIdInputs)
    \/ CreateProject(Inactive \cup {Tok("lec")}, GatePayloads)
    \/ ListProjects(Inactive)
    \/ GetProject(Inactive, ProjectIdInputs)

Spec == Init /\ [][Next]_vars

\* the principal a credential names, and what is known of it
Caller(l) == l.tok.sub
IsUser(l) == l.tok.kind = "ok" /\ Caller(l) \in Users
Deactivated(l) == IsUser(l) /\ ~UserRow(Caller(l)).is_active
ActiveUser(l) == IsUser(l) /\ UserRow(Caller(l)).is_active
StudentRole(u) == UserRow(u).role_name \in {"Student", "STUDENT", "student"}
ActiveStudent(l) == ActiveUser(l) /\ StudentRole(Caller(l))
ActiveNonStudent(l) == ActiveUser(l) /\ ~StudentRole(Caller(l))
\* a TeamMember row with that team, that student and is_active = TRUE
ActiveRow(team_id, user_id) ==
    [team_id |-> team_id, student_id |-> user_id, is_active |-> TRUE] \in members

HandlerOps ==
    {"create_sprint", "list_sprints", "get_sprint", "update_sprint", "delete_sprint",
     "create_task", "list_tasks_by_sprint", "get_task_board", "get_task",
     "update_task", "update_task_status", "delete_task", "get_sprint_statistics",
     "create_project", "list_projects", "get_project"}

\* C1: a request of a deactivated principal, whatever its role and whichever
\* sprint, task or project handler it addresses, ends with 403 and leaves
\* every stored row as it was.
C1_InactiveForbidden ==
    [][(last'.op \in HandlerOps /\ Deactivated(last'))
          => (last'.code = 403 /\ UNCHANGED db)]_vars

\* a deactivated lecturer asked to delete an existing sprint and got 403
C1_Witness ==
    /\ last.op = "delete_sprint"
    /\ last.tok = Tok("erin")
    /\ last.code = 403
    /\ DOMAIN sprints # {}

\* ---------------------------------------------------------------------
\* SpecCreate: the two creation handlers driven by students and by active
\* non-students, with existing and missing teams and sprints.
\* ---------------------------------------------------------------------
CreateTokens == {Tok("alice"), Tok("bob"), Tok("lec"), Tok("adm")}
CreateTaskBodies ==
    [sprint_id : SprintIdInputs \cup {NullId},
     assignee_id : {Null, "alice", "bob"},
     priority : {"medium"}]

NextCreate ==
    \/ CreateSprint(CreateTokens, [team_id : TeamIdInputs])
    \/ CreateTask(CreateTokens, CreateTaskBodies)
    \/ DeleteSprint(CreateTokens, SprintIdInputs)

SpecCreate == Init /\ [][NextCreate]_vars

\* C2: create_sprint and create_task by an active non-student end with 403
\* and add nothing; every step that adds a Sprint or Task row is a request
\* of a student.
C2_CreationStudentOnly ==
    [][/\ (last'.op \in {"create_sprint", "create_task"} /\ ActiveNonStudent(last'))
            => (last'.code = 403 /\ UNCHANGED db)
       /\ (DOMAIN sprints' \ DOMAIN sprints # {} \/ DOMAIN tasks' \ DOMAIN tasks # {})
            => ActiveStudent(last')]_vars

\* the administrator asked for a task in an existing sprint and got 403
C2_Witness ==
    /\ last.op = "create_task"
    /\ last.tok = Tok("adm")
    /\ last.code = 403
    /\ last.id \in DOMAIN sprints
    /\ ActiveRow(sprints[last.id].team_id, "adm")

\* ---------------------------------------------------------------------
\* SpecSprint: the sprint-scoped handlers driven by students with an active
\* membership, an inactive membership and none, while memberships are
\* deactivated.
\* ---------------------------------------------------------------------
SprintBodies == [status : {"active", Unset}]

NextSprint ==
    \/ CreateSprint(Students, [team_id : TeamIdInputs])
    \/ ListSprints(Students, TeamIdInputs)
    \/ GetSprint(Students, SprintIdInputs)
    \/ UpdateSprint(Students, SprintIdInputs, SprintBodies)
    \/ ListTasksBySprint(Students, SprintIdInputs)
    \/ GetTaskBoard(Students, SprintIdInputs)
    \/ GetSprintStatistics(Students, SprintIdInputs)
    \/ DeactivateMember({"alice", "bob", "adm"})

SpecSprint == Init /\ [][NextSprint]_vars

SprintGatedOps ==
    {"get_sprint", "update_sprint", "list_tasks_by_sprint", "get_task_board",
     "get_sprint_statistics"}

\* the team a sprint-scoped request is about, in the storage it was served from
TargetTeam(l) ==
    IF l.op = "list_sprints" THEN (IF l.id \in Teams THEN l.id ELSE 0)
    ELSE IF l.op \in SprintGatedOps /\ l.id \in DOMAIN sprints THEN sprints[l.id].team_id
    ELSE 0

\* C3: a student without an active membership row in the team of an existing
\* sprint (or in an existing team, for list_sprints) gets 403 from every
\* sprint-scoped read and from update_sprint, and nothing is changed.
C3_NonMemberForbidden ==
    [][(/\ ActiveStudent(last')
        /\ TargetTeam(last') # 0
        /\ ~ActiveRow(TargetTeam(last'), Caller(last')))
          => (last'.code = 403 /\ UNCHANGED db)]_vars

\* bob, whose only row in team 1 is inactive, asked to update a sprint of team 1
C3_Witness ==
    /\ last.op = "update_sprint"
    /\ last.tok = Tok("bob")
    /\ last.code = 403
    /\ last.id \in DOMAIN sprints
    /\ sprints[last.id].team_id = 1

\* ---------------------------------------------------------------------
\* SpecTask: the task handlers driven by students of team 1, of team 2 and
\* of no team; bodies assign members and non-members and move tasks between
\* sprints.  Memberships stay as they are.
\* ---------------------------------------------------------------------
TaskMakers == {Tok("alice"), Tok("bob")}
TaskCreateInputs ==
    [sprint_id : SprintIdInputs, assignee_id : {Null, "alice", "bob"}, priority : {"medium"}]
TaskMoveInputs ==
    [assignee_id : {Unset, Null, "alice", "bob"},
     priority : {Unset},
     status : {Unset},
     sprint_id : SprintIdInputs \cup {NullId, UnsetId}]
TaskDoneInputs == [status : {"done"}]

NextTask ==
    \/ CreateSprint(TaskMakers, [team_id : Teams])
    \/ CreateTask(Students, TaskCreateInputs)
    \/ GetTask(Students, TaskIdInputs)
    \/ UpdateTask(Students, TaskIdInputs, TaskMoveInputs)
    \/ UpdateTaskStatus(Students, TaskIdInputs, TaskDoneInputs)
    \/ DeleteTask(Students, TaskIdInputs)

SpecTask == Init /\ [][NextTask]_vars

TaskGatedOps == {"get_task", "update_task", "update_task_status", "delete_task"}

\* the task's sprint exists and user has an active row in the sprint's team
MemberOfTaskTeam(task, sprintTable, user) ==
    /\ task.sprint_id \in DOMAIN sprintTable
    /\ ActiveRow(sprintTable[task.sprint_id].team_id, user)

\* C4: a student's get_task, update_task, update_task_status or delete_task
\* on an existing task succeeds only if the student is an active member of
\* the team owning the task's sprint; a task without a sprint is at least
\* closed to a student who is an active member of no team.
C4_TaskOpsMembersOnly ==
    [][(/\ last'.op \in TaskGatedOps
        /\ ActiveStudent(last')
        /\ last'.id \in DOMAIN tasks
        /\ last'.code \in {200, 204})
          => IF tasks[last'.id].sprint_id \in DOMAIN sprints
             THEN MemberOfTaskTeam(tasks[last'.id], sprints, Caller(last'))
             ELSE \E team \in Teams : ActiveRow(team, Caller(last'))]_vars

\* C5: the assignee of every task that has one is an active member of the
\* team owning the task's sprint.
C5_AssigneeIsMember ==
    \A t \in DOMAIN tasks :
        (tasks[t].assignee_id # Null /\ tasks[t].sprint_id \in DOMAIN sprints)
          => MemberOfTaskTeam(tasks[t], sprints, tasks[t].assignee_id)

\* C6: create_task or update_task with a non-null assignee_id succeeds only
\* if the assignee is an active member of the team owning the sprint the
\* task belongs to after the request, and writes nothing when it fails.
C6_AssigneeValidated ==
    [][(/\ last'.op \in {"create_task", "update_task"}
        /\ ActiveUser(last')
        /\ TruthyStr(GetStr(last'.body.assignee_id)))
          => IF last'.code \in {200, 201}
             THEN LET t == IF last'.op = "create_task" THEN nextTaskId ELSE last'.id IN
                  MemberOfTaskTeam(tasks'[t], sprints', last'.body.assignee_id)
             ELSE UNCHANGED db]_vars

\* ---------------------------------------------------------------------
\* SpecEnum: sprint and task updates driven by a member and a non-member
\* with status and priority strings inside and outside the enums, the empty
\* string, another letter case and an explicit null.
\* ---------------------------------------------------------------------
SprintStatusInputs == SprintStatusEnum \cup {"", "Active", "archived", Null, Unset}
TaskStatusInputs == {"done", "", "Done", "archived"}
EnumSprintBodies == [status : {"active", "", "Active"}]
EnumTaskCreateBodies ==
    [sprint_id : {1}, assignee_id : {Null}, priority : {"medium", "urgent"}]
EnumTaskBodies ==
    [assignee_id : {Unset},
     priority : {Unset, "", "urgent"},
     status : TaskStatusInputs \cup {Null, Unset},
     sprint_id : {UnsetId}]
EnumStatusBodies == [status : TaskStatusInputs]
EnumTokens == {Tok("alice"), Tok("bob")}

NextEnum ==
    \/ CreateSprint(EnumTokens, [team_id : {1}])
    \/ UpdateSprint(EnumTokens, SprintIdInputs, EnumSprintBodies)
    \/ CreateTask(EnumTokens, EnumTaskCreateBodies)
    \/ UpdateTask(EnumTokens, TaskIdInputs, EnumTaskBodies)
    \/ UpdateTaskStatus(EnumTokens, TaskIdInputs, EnumStatusBodies)

SpecEnum == Init /\ [][NextEnum]_vars

\* ---------------------------------------------------------------------
\* SpecSprintEnum: the three sprint writers, with every status string.
\* ---------------------------------------------------------------------
NextSprintEnum ==
    \/ CreateSprint(EnumTokens, [team_id : Teams])
    \/ UpdateSprint(EnumTokens, SprintIdInputs, [status : SprintStatusInputs])
    \/ DeleteSprint(EnumTokens, SprintIdInputs)

SpecSprintEnum == Init /\ [][NextSprintEnum]_vars

StatusEnumOf(op) == IF op = "update_sprint" THEN SprintStatusEnum ELSE TaskStatusEnum

\* C7: update_sprint, update_task and update_task_status by an authorized
\* caller reject with 400 every supplied status string outside the entity's
\* enum, the empty string and other letter cases included, and leave the
\* stored rows unchanged.
C7_BadStatusRejected ==
    [][(/\ last'.op \in {"update_sprint", "update_task", "update_task_status"}
        /\ ActiveUser(last')
        /\ last'.code \notin {403, 404}
        /\ last'.body.status \notin {Unset, Null}
        /\ last'.body.status \notin StatusEnumOf(last'.op))
          => (last'.code = 400 /\ UNCHANGED db)]_vars

\* C8: every Sprint row's status is planned, active or completed.
C8_SprintStatusInEnum ==
    \A s \in DOMAIN sprints : sprints[s].status \in SprintStatusEnum

\* C9: every Task row has status in {todo, doing, done} and priority in
\* {low, medium, high}.
C9_TaskFieldsInEnum ==
    \A t \in DOMAIN tasks :
        tasks[t].status \in TaskStatusEnum /\ tasks[t].priority \in PriorityEnum

\* a PATCH /tasks/{id} body that carries status and nothing else
StatusOnlyBody(s) ==
    [assignee_id |-> Unset, priority |-> Unset, status |-> s, sprint_id |-> UnsetId]

AnyToken ==
    Students \cup Staff \cup Inactive
      \cup {Tok("ghost"), Tok(Null), [kind |-> "expired", sub |-> Null]}

\* C10: for every principal, task id and status string, update_task_status
\* and update_task with a body of only that status end with the same code
\* and the same stored rows.
C10_StatusPathsAgree ==
    \A token \in AnyToken, task_id \in TaskIdInputs, s \in TaskStatusInputs \cup TaskStatusEnum :
        update_task_status(token, task_id, [status |-> s])
          = update_task(token, task_id, StatusOnlyBody(s))

\* ---------------------------------------------------------------------
\* SpecProject: the project handlers driven by lecturers whose role row has
\* id 4 and another id, by an administrator and by a student, with topics
\* that are approved, pending, without status and missing, while a topic is
\* reviewed.
\* ---------------------------------------------------------------------
ProjectTokens == {Tok("lec"), Tok("john"), Tok("adm"), Tok("alice")}
ProjectPayloads == [topic_id : Topics \cup {4}, class_id : Classes \cup {3}]

NextProject ==
    \/ CreateProject(ProjectTokens, ProjectPayloads)
    \/ ListProjects({Tok("lec")})
    \/ GetProject({Tok("lec")}, ProjectIdInputs)
    \/ ReviewTopic({2}, {"approved", "rejected"})

SpecProject == Init /\ [][NextProject]_vars

LecturerRole(u) == UserRow(u).role_name \in {"Lecturer", "LECTURER", "lecturer"}
ApprovedStatus(s) == s \in {"approved", "Approved", "APPROVED"}

\* C11: create_project by a lecturer (past the role check) ends with 404 when
\* the topic does not exist and with 400 when the topic's status at that
\* moment is anything but "approved" in some letter case, a missing status
\* included, and in both cases adds no row; a Project row is added only for
\* an existing approved topic.
C11_ProjectNeedsApprovedTopic ==
    [][/\ (/\ last'.op = "create_project"
           /\ ActiveUser(last')
           /\ LecturerRole(Caller(last'))
           /\ last'.code # 403)
            => IF last'.id \notin DOMAIN topics
               THEN last'.code = 404 /\ UNCHANGED db
               ELSE ~ApprovedStatus(topics[last'.id])
                      => (last'.code = 400 /\ UNCHANGED db)
       /\ Len(projects') > Len(projects)
            => (last'.id \in DOMAIN topics /\ ApprovedStatus(topics[last'.id]))]_vars

\* C12: create_project by an active principal ends with 403 and adds nothing
\* when the principal's role name is not LECTURER in some letter case, and
\* never ends with 403 when it is, whatever the id of the role row.
C12_LecturerByName ==
    [][(last'.op = "create_project" /\ ActiveUser(last'))
          => IF LecturerRole(Caller(last'))
             THEN last'.code # 403
             ELSE last'.code = 403 /\ UNCHANGED db]_vars

\* C13: a create_project that succeeds ends with 201 and appends exactly one
\* Project row, with status "active" and the topic_id and class_id of the
\* request; the Project rows before it and every Topic row stay as they were.
C13_ProjectCreated ==
    [][(last'.op = "create_project" /\ last'.code \in 200..299)
          => /\ last'.code = 201
             /\ projects' = Append(projects, [topic_id |-> last'.body.topic_id,
                                              class_id |-> last'.body.class_id,
                                              status |-> "active"])
             /\ topics' = topics]_vars

\* a lecturer created a project of class 2 from a topic that review approved
C13_Witness ==
    /\ last.op = "create_project"
    /\ last.code = 201
    /\ last.body = [topic_id |-> 2, class_id |-> 2]
    /\ Len(projects) = 1
    /\ projects[1] = [topic_id |-> 2, class_id |-> 2, status |-> "active"]
    /\ topics[2] = "approved"

\* ---------------------------------------------------------------------
\* SpecSprintLife: sprints are created and deleted by the leader of a team,
\* an active member who is not the leader, the leader of another team, a
\* student of no team, a lecturer and an administrator; creation requests
\* may carry a status of their own; the leader's membership may lapse.
\* ---------------------------------------------------------------------
LifeStudents == {Tok("alice"), Tok("bob"), Tok("frank"), Tok("carol")}
LifeTokens == LifeStudents \cup Staff
LifeRaws == [team_id : TeamIdInputs, status : {Unset, "active"}]
LifeTaskBodies == [sprint_id : {1}, assignee_id : {Null}, priority : {"medium"}]

NextSprintLife ==
    \/ CreateSprint(LifeStudents, LifeRaws)
    \/ CreateTask({Tok("alice")}, LifeTaskBodies)
    \/ DeleteSprint(LifeTokens, SprintIdInputs)
    \/ DeactivateMember({"alice"})

SpecSprintLife == Init /\ [][NextSprintLife]_vars

\* the caller may delete sprints of that team: not a student, or its leader
MayDelete(user, team_id) == ~StudentRole(user) \/ TeamLeader(team_id) = user

\* C14: delete_sprint on an existing sprint ends with 403 and leaves every
\* row when the caller is a student who is not the leader of the sprint's
\* team, an active member included; a Sprint row disappears only by a
\* delete_sprint of the team's leader or of a non-student.
C14_DeleteByLeaderOrStaff ==
    [][/\ (/\ last'.op = "delete_sprint"
           /\ ActiveUser(last')
           /\ last'.id \in DOMAIN sprints
           /\ ~MayDelete(Caller(last'), sprints[last'.id].team_id))
            => (last'.code = 403 /\ UNCHANGED db)
       /\ \A s \in DOMAIN sprints \ DOMAIN sprints' :
            /\ last'.op = "delete_sprint"
            /\ last'.id = s
            /\ ActiveUser(last')
            /\ MayDelete(Caller(last'), sprints[s].team_id)]_vars

\* frank, an active member of team 1 but not its leader, asked to delete a
\* sprint of team 1 and got 403
C14_Witness ==
    /\ last.op = "delete_sprint"
    /\ last.tok = Tok("frank")
    /\ last.code = 403
    /\ last.id \in DOMAIN sprints
    /\ sprints[last.id].team_id = 1
    /\ ActiveRow(1, "frank")
    /\ TeamLeader(1) # "frank"

\* C15: create_sprint by a student ends with 404 for a team that does not
\* exist and with 403 for a team the student is not an active member of,
\* adding nothing; otherwise it ends with 201, adds exactly one Sprint row
\* with that team id and status "planned" whatever status the request
\* carries, changes no other row, and answers task_count 0.
C15_SprintCreated ==
    [][(last'.op = "create_sprint" /\ ActiveStudent(last'))
          => IF last'.id \notin Teams
             THEN last'.code = 404 /\ UNCHANGED db
             ELSE IF ~ActiveRow(last'.id, Caller(last'))
             THEN last'.code = 403 /\ UNCHANGED db
             ELSE /\ last'.code = 201
                  /\ nextSprintId \notin DOMAIN sprints
                  /\ sprints' = (nextSprintId :> [team_id |-> last'.id,
                                                  status |-> "planned"]) @@ sprints
                  /\ last'.resp.task_count = 0
                  /\ last'.resp.status = "planned"
                  /\ UNCHANGED <<tasks, projects, topics, members>>]_vars

\* frank asked for a sprint of team 1 with status "active" and got a planned one
C15_Witness ==
    /\ last.op = "create_sprint"
    /\ last.tok = Tok("frank")
    /\ last.code = 201
    /\ last.body.status = "active"
    /\ last.resp.sprint_id \in DOMAIN sprints
    /\ sprints[last.resp.sprint_id] = [team_id |-> 1, status |-> "planned"]
    /\ last.resp.task_count = 0

\* ---------------------------------------------------------------------
\* SpecTaskNew: tasks are created by students of team 1 and of no team, in
\* sprints of team 1 and team 2, with a sprint id that is null, zero, missing or existing, while
\* sprints are deleted and a membership lapses.
\* ---------------------------------------------------------------------
NewTaskTokens == {Tok("alice"), Tok("carol"), Tok("frank")}
NewTaskBodies ==
    [sprint_id : SprintIdInputs \cup {NullId, 0},
     assignee_id : {Null},
     priority : {"medium"}]

NextTaskNew ==
    \/ CreateSprint({Tok("alice"), Tok("bob")}, [team_id : Teams])
    \/ CreateTask(NewTaskTokens, NewTaskBodies)
    \/ DeleteSprint({Tok("alice")}, SprintIdInputs)
    \/ DeactivateMember({"frank"})

SpecTaskNew == Init /\ [][NextTaskNew]_vars

BadTokens ==
    {[kind |-> "malformed", sub |-> Null],
     [kind |-> "badsig", sub |-> "lec"],
     [kind |-> "expired", sub |-> "alice"],
     [kind |-> "expired", sub |-> "dave"],
     Tok(Null)}
AuthTokens ==
    {Tok("alice"), Tok("lec"), Tok("dave"), Tok("erin"), Tok("ghost")} \cup BadTokens

NextAuth ==
    \/ GetCurrentUser(AuthTokens)
    \/ CreateSprint(AuthTokens, [team_id : {1}])
    \/ GetSprint(AuthTokens, {1})
    \/ DeleteSprint(AuthTokens, {1, 2})
    \/ CreateProject(AuthTokens, GatePayloads)
    \/ ListProjects(AuthTokens)

SpecAuth == Init /\ [][NextAuth]_vars

AuthOps == HandlerOps \cup {"get_current_user"}
\* the token verifies and carries a subject
Verified(l) == l.tok.kind = "ok" /\ l.tok.sub # Null

\* C17: for a verified subject id, a request ends with 401 when no User row
\* has that id and with 403 (not 401) when the row is deactivated, nothing
\* being changed; when the row is active the request does not end with 401
\* and identity resolution returns that very principal with its role.
C17_ThreeOutcomes ==
    [][(last'.op \in AuthOps /\ Verified(last'))
          => IF Caller(last') \notin Users
             THEN last'.code = 401 /\ UNCHANGED db
             ELSE IF ~UserRow(Caller(last')).is_active
             THEN last'.code = 403 /\ UNCHANGED db
             ELSE /\ last'.code # 401
                  /\ last'.op = "get_current_user"
                       => /\ last'.code = 200
                          /\ last'.resp.user = Caller(last')
                          /\ last'.resp.role_name = UserRow(Caller(last')).role_name]_vars

\* a verified token whose subject has no User row asked to delete an
\* existing sprint and got 401
C17_Witness ==
    /\ last.op = "delete_sprint"
    /\ last.tok = Tok("ghost")
    /\ last.code = 401
    /\ DOMAIN sprints # {}

\* C18: a token that is malformed, wrongly signed, expired or without a sub
\* claim ends every request with 401; identity resolution has issued no
\* storage read, the handler has seen neither id nor body, and no row is
\* changed.
C18_BadTokenUnauthenticated ==
    [][(last'.op \in AuthOps /\ ~Verified(last'))
          => /\ last'.code = 401
             /\ UNCHANGED db
             /\ last'.id = 0 /\ last'.body = NoBody
             /\ last'.op = "get_current_user" => last'.resp.reads = 0]_vars

\* the expired token of alice, leader of team 1, asked to delete a sprint of
\* team 1 and got 401
C18_Witness ==
    /\ last.op = "delete_sprint"
    /\ last.tok = [kind |-> "expired", sub |-> "alice"]
    /\ last.code = 401
    /\ \E s \in DOMAIN sprints : sprints[s].team_id = 1

\* ---------------------------------------------------------------------
\* SpecPatch: a member updates sprints and tasks with bodies in which each
\* field is present, explicitly null or absent.
\* ---------------------------------------------------------------------
PatchTaskCreateBodies == [sprint_id : {1}, assignee_id : {"alice"}, priority : {"low"}]
PatchSprintBodies == [status : {Unset, "active"}]
PatchTaskBodies ==
    [assignee_id : {Unset, Null},
     priority : {Unset, "high"},
     status : {Unset, "doing"},
     sprint_id : {UnsetId}]

NextPatch ==
    \/ CreateSprint({Tok("alice")}, [team_id : {1}])
    \/ CreateTask({Tok("alice")}, PatchTaskCreateBodies)
    \/ UpdateSprint({Tok("alice")}, SprintIdInputs, PatchSprintBodies)
    \/ UpdateTask({Tok("alice")}, TaskIdInputs, PatchTaskBodies)

SpecPatch == Init /\ [][NextPatch]_vars

\* the row a partial update must leave: present fields from the body, absent
\* fields as they were
SprintPatched(row, body) ==
    [team_id |-> row.team_id,
     status |-> IF body.status = Unset THEN row.status ELSE body.status]
TaskPatched(row, body) ==
    [sprint_id |-> IF body.sprint_id = UnsetId THEN row.sprint_id ELSE body.sprint_id,
     assignee_id |-> IF body.assignee_id = Unset THEN row.assignee_id ELSE body.assignee_id,
     priority |-> IF body.priority = Unset THEN row.priority ELSE body.priority,
     status |-> IF body.status = Unset THEN row.status ELSE body.status]

\* C19: an update_sprint or update_task that succeeds sets exactly the
\* fields present in its body on the addressed row, leaves that row's other
\* fields at their previous values, and changes no other row.
C19_PartialUpdate ==
    [][/\ (last'.op = "update_sprint" /\ last'.code = 200)
            => /\ sprints' = [sprints EXCEPT ![last'.id] = SprintPatched(@, last'.body)]
               /\ UNCHANGED <<tasks, projects, topics, members>>
       /\ (last'.op = "update_task" /\ last'.code = 200)
            => /\ tasks' = [tasks EXCEPT ![last'.id] = TaskPatched(@, last'.body)]
               /\ UNCHANGED <<sprints, projects, topics, members>>]_vars

\* a body with only priority "high" was applied to a task that had been moved
\* to "doing" with its assignee cleared: those two fields stayed
C19_Witness ==
    /\ last.op = "update_task"
    /\ last.code = 200
    /\ last.body = [assignee_id |-> Unset, priority |-> "high",
                    status |-> Unset, sprint_id |-> UnsetId]
    /\ tasks[last.id] = [sprint_id |-> 1, assignee_id |-> Null,
                         priority |-> "high", status |-> "doing"]

\* ---------------------------------------------------------------------
\* SpecStats: statistics of empty and filled sprints asked for by a member,
\* a non-member and a lecturer, while tasks move between statuses.
\* ---------------------------------------------------------------------
StatsTokens == {Tok("alice"), Tok("bob"), Tok("lec")}
StatsTaskBodies == [sprint_id : {1}, assignee_id : {Null}, priority : {"medium"}]
StatsMoves == [status : TaskStatusEnum]

NextStats ==
    \/ CreateSprint({Tok("alice")}, [team_id : {1}])
    \/ CreateTask({Tok("alice")}, StatsTaskBodies)
    \/ UpdateTaskStatus({Tok("alice")}, TaskIdInputs, StatsMoves)
    \/ GetSprintStatistics(StatsTokens, SprintIdInputs)

SpecStats == Init /\ [][NextStats]_vars

TasksOf(sprint_id) == {t \in DOMAIN tasks : tasks[t].sprint_id = sprint_id}
CountOf(sprint_id, status) ==
    Cardinality({t \in TasksOf(sprint_id) : tasks[t].status = status})
\* done / total * 100 rounded to 2 decimals, in hundredths of a percent
RateOf(done, total) ==
    IF total = 0 THEN 0 ELSE (done * 10000 * 2 + total) \div (2 * total)

\* C20: get_sprint_statistics for an existing sprint and an authorized
\* caller (any non-student, or an active member of the sprint's team) ends
\* with 200 and answers the number of tasks of the sprint, the number of
\* those in each of todo, doing and done, and the completion rate, 0.0 for
\* a sprint without tasks.
C20_StatisticsAnswered ==
    [][(/\ last'.op = "get_sprint_statistics"
        /\ ActiveUser(last')
        /\ last'.id \in DOMAIN sprints
        /\ StudentRole(Caller(last'))
              => ActiveRow(sprints[last'.id].team_id, Caller(last')))
          => /\ last'.code = 200
             /\ last'.resp.total_tasks = Cardinality(TasksOf(last'.id))
             /\ last'.resp.todo_count = CountOf(last'.id, "todo")
             /\ last'.resp.doing_count = CountOf(last'.id, "doing")
             /\ last'.resp.done_count = CountOf(last'.id, "done")
             /\ last'.resp.completion_rate
                  = RateOf(CountOf(last'.id, "done"), Cardinality(TasksOf(last'.id)))]_vars

\* ---------------------------------------------------------------------
\* SpecBoard: the board of a sprint read by a member, a non-member and a
\* lecturer, while tasks change status, leave their sprint and move to
\* another one.
\* ---------------------------------------------------------------------
BoardTokens == {Tok("alice"), Tok("bob"), Tok("lec")}
BoardTaskBodies == [sprint_id : {1, 2}, assignee_id : {Null}, priority : {"medium"}]
BoardMoves ==
    [assignee_id : {Unset},
     priority : {Unset},
     status : {Unset, "doing", "done", ""},
     sprint_id : {UnsetId, NullId, 2}]

NextBoard ==
    \/ CreateSprint({Tok("alice")}, [team_id : {1}])
    \/ CreateTask({Tok("alice")}, BoardTaskBodies)
    \/ UpdateTask({Tok("alice")}, TaskIdInputs, BoardMoves)
    \/ GetTaskBoard(BoardTokens, SprintIdInputs)

SpecBoard == Init /\ [][NextBoard]_vars

BoardAnswered(l) == l.op = "get_task_board" /\ l.code = 200
TasksIn(sprint_id) == {t \in DOMAIN tasks : tasks[t].sprint_id = sprint_id}

\* C21: a get_task_board that succeeds changes no row; its four columns are
\* pairwise disjoint and together hold exactly the tasks of the sprint; and
\* when it directly follows another successful get_task_board of the same
\* sprint it answers the same grouping.
C21_BoardPureRead ==
    [][BoardAnswered(last')
          => /\ UNCHANGED db
             /\ LET b == last'.resp IN
                /\ b.todo \cup b.doing \cup b.done \cup b.backlog = TasksIn(last'.id)
                /\ b.todo \cap b.doing = {} /\ b.todo \cap b.done = {}
                /\ b.todo \cap b.backlog = {} /\ b.doing \cap b.done = {}
                /\ b.doing \cap b.backlog = {} /\ b.done \cap b.backlog = {}
             /\ (BoardAnswered(last) /\ last.id = last'.id)
                  => last'.resp = last.resp]_vars

\* the lecturer read the board of a sprint that holds a task in "doing"
C21_Witness ==
    /\ BoardAnswered(last)
    /\ last.tok = Tok("lec")
    /\ last.resp.doing # {}
    /\ last.resp.doing = TasksIn(last.id)

\* C22: in a board that get_task_board answers, a task is in the backlog
\* column if and only if its sprint_id is null, and every task of the
\* requested sprint is in the todo, doing or done column named by its
\* status.
C22_BacklogIsSprintless ==
    [][BoardAnswered(last')
          => /\ \A t \in DOMAIN tasks :
                  t \in last'.resp.backlog <=> tasks[t].sprint_id = NullId
             /\ \A t \in TasksIn(last'.id) :
                  tasks[t].status \in TaskStatusEnum
                    => t \in last'.resp[tasks[t].status]]_vars

\* ---------------------------------------------------------------------
\* SpecStaff: the sprint and task read, update and delete handlers driven by
\* an administrator, a staff member, a head of department and a lecturer,
\* of whom only the administrator has a membership row; a student supplies
\* the sprints and tasks.
\* ---------------------------------------------------------------------
StaffTokens == {Tok("adm"), Tok("stef"), Tok("hod"), Tok("lec")}

NextStaff ==
    \/ CreateSprint({Tok("alice")}, [team_id : {1}])
    \/ CreateTask({Tok("alice")}, GateTaskCreateBodies)
    \/ ListSprints(StaffTokens, {1})
    \/ GetSprint(StaffTokens, {1})
    \/ UpdateSprint(StaffTokens, {1, 2}, GateSprintBodies)
    \/ DeleteSprint(StaffTokens, {1, 2})
    \/ ListTasksBySprint(StaffTokens, {1})
    \/ GetTaskBoard(StaffTokens, {1})
    \/ GetTask(StaffTokens, {1})
    \/ UpdateTask(StaffTokens, {1}, GateTaskUpdateBodies)
    \/ UpdateTaskStatus(StaffTokens, {1}, GateStatusBodies)
    \/ DeleteTask(StaffTokens, {1})

SpecStaff == Init /\ [][NextStaff]_vars

BypassOps ==
    {"list_sprints", "get_sprint", "update_sprint", "delete_sprint",
     "list_tasks_by_sprint", "get_task_board", "get_task", "update_task",
     "update_task_status", "delete_task"}
StaffRole(u) ==
    UserRow(u).role_name
      \in {"Admin", "ADMIN", "Staff", "STAFF", "Head_Dept", "HEAD_DEPT", "Lecturer", "LECTURER"}

RoleTokens ==
    {Tok("alice"), Tok("bob"), Tok("carol"), Tok("lec"), Tok("john"), Tok("adm"),
     Tok("stef"), Tok("hod"), Tok("dave"), Tok("erin"), Tok("ghost")}
AllowedInputs ==
    {{}, {"LECTURER"}, {"lecturer"}, {"Student"}, {"STUDENT"}, {"admin"},
     {"staff"}, {"HEAD_DEPT"}, {"Lecturer", "Admin"},
     {"ADMIN", "STAFF"}, {"Head_Dept", "student"}}

NextRoles ==
    \/ RequireRole(RoleTokens, AllowedInputs)
    \/ RequireLecturer(RoleTokens)
    \/ RequireStudent(RoleTokens)
    \/ RequireAdmin(RoleTokens)

SpecRoles == Init /\ [][NextRoles]_vars

\* a role name with the letter case taken away
CaseFold(s) ==
    CASE s \in {"Student", "student", "STUDENT"} -> "student"
      [] s \in {"Lecturer", "lecturer", "LECTURER"} -> "lecturer"
      [] s \in {"Admin", "admin", "ADMIN"} -> "admin"
      [] s \in {"Staff", "staff", "STAFF"} -> "staff"
      [] s \in {"Head_Dept", "head_dept", "HEAD_DEPT"} -> "head_dept"
      [] OTHER -> s
SameRoleName(a, b) == CaseFold(a) = CaseFold(b)

\* C24: require_role accepts an active principal exactly when its role name
\* equals one of the allowed names up to letter case, and otherwise ends
\* with 403; require_lecturer, require_student and require_admin end as
\* require_role of LECTURER, STUDENT and ADMIN does, for every credential.
C24_RoleGate ==
    [][/\ (last'.op = "require_role" /\ ActiveUser(last'))
            => IF \E r \in last'.body.allowed :
                     SameRoleName(r, UserRow(Caller(last')).role_name)
               THEN last'.code = 200
               ELSE last'.code = 403
       /\ last'.op = "require_lecturer"
            => last'.code = require_role(last'.tok, {"LECTURER"}).code
       /\ last'.op = "require_student"
            => last'.code = require_role(last'.tok, {"STUDENT"}).code
       /\ last'.op = "require_admin"
            => last'.code = require_role(last'.tok, {"ADMIN"}).code]_vars

\* lec, whose role is spelled "Lecturer", passed a gate that allows
\* "lecturer", or bob, "STUDENT", one that allows "Student"
C24_Witness ==
    /\ last.op = "require_role"
    /\ last.code = 200
    /\ \/ last.tok = Tok("lec") /\ last.body.allowed = {"lecturer"}
       \/ last.tok = Tok("bob") /\ last.body.allowed = {"Student"}

\* ---------------------------------------------------------------------
\* SpecFail: every sprint, task and project handler driven by a member, a
\* student who is no member, an unknown subject and a lecturer, with ids
\* that exist and do not, and with bodies that pass and fail validation.
\* ---------------------------------------------------------------------
FailTokens == {Tok("alice"), Tok("bob"), Tok("ghost")}
FailSprintBodies == [status : {"active", "archived"}]
FailTaskCreateBodies ==
    [sprint_id : {1, NullId}, assignee_id : {Null, "bob"}, priority : {"medium"}]
FailTaskBodies ==
    [assignee_id : {Unset, "bob"},
     priority : {Unset, "urgent"},
     status : {"done"},
     sprint_id : {UnsetId}]
FailStatusBodies == [status : {"doing", "archived"}]
FailPayloads == [topic_id : {2, 4}, class_id : {1}]

NextFail ==
    \/ CreateSprint(FailTokens, [team_id : {1, 3}])
    \/ ListSprints({Tok("bob")}, {1, 3})
    \/ GetSprint({Tok("bob")}, {1})
    \/ UpdateSprint(FailTokens, {1, 2}, FailSprintBodies)
    \/ DeleteSprint(FailTokens, {1, 2})
    \/ CreateTask(FailTokens, FailTaskCreateBodies)
    \/ ListTasksBySprint({Tok("bob")}, {1})
    \/ GetTaskBoard({Tok("bob")}, {1})
    \/ GetTask({Tok("bob")}, {1})
    \/ UpdateTask(FailTokens, {1, 2}, FailTaskBodies)
    \/ UpdateTaskStatus(FailTokens, {1}, FailStatusBodies)
    \/ DeleteTask(FailTokens, {1})
    \/ GetSprintStatistics({Tok("bob")}, {1})
    \/ CreateProject({Tok("lec"), Tok("alice")}, FailPayloads)
    \/ ListProjects({Tok("ghost")})
    \/ GetProject({Tok("lec")}, {2})

SpecFail == Init /\ [][NextFail]_vars

FailureCodes == {400, 401, 403, 404}

\* C25: a request to a sprint, task or project handler that ends with 400,
\* 401, 403 or 404 leaves every stored row as it was before the request.
C25_FailureLeavesRows ==
    [][(last'.op \in HandlerOps /\ last'.code \in FailureCodes)
          => UNCHANGED db]_vars

\* alice asked to give an existing task to bob, who is no active member of
\* the task's team, and to mark it done: 400, and the task is as it was
C25_Witness ==
    /\ last.op = "update_task"
    /\ last.code = 400
    /\ last.body.assignee_id = "bob"
    /\ last.body.status = "done"
    /\ last.id \in DOMAIN tasks
    /\ tasks[last.id].assignee_id = Null
    /\ tasks[last.id].status = "todo"

\* ---------------------------------------------------------------------
\* SpecRace: alice opens a sprint and a task, and two status updates on
\* that task run concurrently, their read and commit steps interleaved in
\* every order.
\* ---------------------------------------------------------------------
RaceTokens == {Tok("alice"), Tok("bob")}
RaceStatusBodies == [status : {"todo", "doing", "done", "archived"}]

NextRace ==
    \/ CreateSprint({Tok("alice")}, [team_id : {1}])
    \/ CreateTask({Tok("alice")}, [sprint_id : {1}, assignee_id : {Null},
                                   priority : {"medium"}])
    \/ UpdateTaskStatusRead(Workers, RaceTokens, {1}, RaceStatusBodies)
    \/ UpdateTaskStatusCommit(Workers)

SpecRace == Init /\ [][NextRace]_vars

\* both requests of the pair passed their checks and have committed
BothCommitted ==
    \A w \in Workers : inflight[w].pc = "done" /\ inflight[w].op = "update_task_status"

\* the request that committed last
LastCommitter == inflight[CHOOSE w \in Workers : inflight[w].turn = Cardinality(Workers)]

\* C26 as stated: once both concurrent status updates have committed, the
\* task's status is the one sent by the request that committed last.
C26_LastCommitWins ==
    BothCommitted =>
        /\ \A w \in Workers : inflight[w].code = 200
        /\ tasks[1].status = LastCommitter.body.status

\* C26 amended: two concurrent status updates that pass their checks both
\* answer 200, the final status is one of the two sent and in the enum, and
\* it is the status of the request that committed last whenever that status
\* differs from the status that request had read.
C26_LastWriteWins ==
    BothCommitted =>
        /\ \A w \in Workers : inflight[w].code = 200
        /\ tasks[1].status \in {inflight[w].body.status : w \in Workers}
        /\ tasks[1].status \in TaskStatusEnum
        /\ LastCommitter.body.status # LastCommitter.loaded.status
              => tasks[1].status = LastCommitter.body.status

\* both read "todo"; worker 1 committed "doing" and then worker 2 committed
\* "done" over it
C26_Witness ==
    /\ BothCommitted
    /\ inflight[1].loaded.status = "todo"
    /\ inflight[2].loaded.status = "todo"
    /\ inflight[1].body.status = "doing"
    /\ inflight[2].body.status = "done"
    /\ inflight[2].turn = 2
    /\ tasks[1].status = "done"

\* ---------------------------------------------------------------------
\* SpecFrame: alice opens a sprint and tasks assigned to her team mate
\* frank or to nobody; memberships of the team are deactivated; the tasks
\* are then read and updated by alice and the lecturer.
\* ---------------------------------------------------------------------
FrameTokens == {Tok("alice"), Tok("lec")}
FrameTaskBodies ==
    [assignee_id : {Unset},
     priority : {Unset, "high"},
     status : {Unset, "done"},
     sprint_id : {UnsetId}]
FrameStatusBodies == [status : {"doing", "done"}]

NextFrame ==
    \/ CreateSprint({Tok("alice")}, [team_id : {1}])
    \/ CreateTask({Tok("alice")}, [sprint_id : {1}, assignee_id : {Null, "frank"},
                                   priority : {"medium"}])
    \/ DeactivateMember({"frank", "alice"})
    \/ GetTask(FrameTokens, {1, 2})
    \/ UpdateTask(FrameTokens, {1, 2}, FrameTaskBodies)
    \/ UpdateTaskStatus(FrameTokens, {1, 2}, FrameStatusBodies)

SpecFrame == Init /\ [][NextFrame]_vars

\* an authorized caller of a task of a sprint: staff, or an active member of
\* the sprint's team
AuthorizedFor(l, task) ==
    /\ ActiveUser(l)
    /\ task.sprint_id \in DOMAIN sprints
    /\ StudentRole(Caller(l)) => ActiveRow(sprints[task.sprint_id].team_id, Caller(l))

\* the task's assignee no longer has an active membership in the task's team
FormerMemberAssigned(task) ==
    /\ task.assignee_id # Null
    /\ task.sprint_id \in DOMAIN sprints
    /\ ~ActiveRow(sprints[task.sprint_id].team_id, task.assignee_id)

\* C27: deactivating a membership changes no Task row; a task whose assignee
\* is no longer an active member is still served by get_task to authorized
\* callers, with that assignee, and update_task without assignee_id and
\* update_task_status on it still succeed and keep the assignee.
C27_DeactivationKeepsTasks ==
    [][/\ last'.op = "deactivate_member" => tasks' = tasks
       /\ (/\ last'.op \in {"get_task", "update_task", "update_task_status"}
           /\ last'.id \in DOMAIN tasks
           /\ FormerMemberAssigned(tasks[last'.id])
           /\ AuthorizedFor(last', tasks[last'.id]))
          => /\ last'.code = 200
             /\ tasks'[last'.id].assignee_id = tasks[last'.id].assignee_id
             /\ last'.op = "get_task"
                   => last'.resp.assignee_id = tasks[last'.id].assignee_id]_vars

\* frank's membership was deactivated after task 1 was assigned to him, and
\* alice then changed the task with a body that has no assignee_id
C27_Witness ==
    /\ last.op = "update_task"
    /\ last.tok = Tok("alice")
    /\ last.code = 200
    /\ last.body.assignee_id = Unset
    /\ last.body.status = "done"
    /\ last.id \in DOMAIN tasks
    /\ tasks[last.id].assignee_id = "frank"
    /\ tasks[last.id].status = "done"
    /\ FormerMemberAssigned(tasks[last.id])

\* ---------------------------------------------------------------------
\* SpecOrder: sprints of team 1 and team 2 are opened and their status is
\* set, in every order, by a member, a member of the other team and a
\* lecturer.
\* ---------------------------------------------------------------------
OrderTokens == {Tok("alice"), Tok("bob"), Tok("lec")}
OrderBodies == [status : SprintStatusEnum \cup {"archived"}]

NextOrder ==
    \/ CreateSprint({Tok("alice"), Tok("bob")}, [team_id : {1, 2}])
    \/ UpdateSprint(OrderTokens, {1, 2, 3}, OrderBodies)

SpecOrder == Init /\ [][NextOrder]_vars

\* staff, or an active member of the sprint's team
AuthorizedForSprint(l, sprint) ==
    /\ ActiveUser(l)
    /\ StudentRole(Caller(l)) => ActiveRow(sprint.team_id, Caller(l))

\* C28: whatever the current status of a sprint, an authorized update_sprint
\* to any status of {planned, active, completed} answers 200 and stores that
\* status: forward, backward and the same status alike.
C28_NoStatusOrdering ==
    [][(/\ last'.op = "update_sprint"
        /\ last'.id \in DOMAIN sprints
        /\ sprints[last'.id].status \in SprintStatusEnum
        /\ last'.body.status \in SprintStatusEnum
        /\ AuthorizedForSprint(last', sprints[last'.id]))
          => /\ last'.code = 200
             /\ sprints'[last'.id].status = last'.body.status]_vars

\* sprint 1 has been completed, and bob's update of sprint 2 to planned has
\* been accepted (a sprint is created planned: this repeats or moves back)
C28_Witness ==
    /\ last.op = "update_sprint"
    /\ last.code = 200
    /\ last.tok = Tok("bob")
    /\ last.body.status = "planned"
    /\ DOMAIN sprints = {1, 2}
    /\ last.id = 2
    /\ sprints[2].team_id = 2
    /\ sprints[2].status = "planned"
    /\ sprints[1].status = "completed"

\* ---------------------------------------------------------------------
\* SpecMove: alice (team 1) and bob (team 2) open sprints, alice opens a
\* task, and the task is updated with bodies that name a sprint: the
\* task's own, the other team's, none, and one that does not exist.
\* ---------------------------------------------------------------------
MoveTokens == {Tok("alice"), Tok("bob"), Tok("lec")}
MoveBodies ==
    [assignee_id : {Unset},
     priority : {Unset},
     status : {Unset, "doing"},
     sprint_id : {UnsetId, NullId, 1, 2, 3}]

NextMove ==
    \/ CreateSprint({Tok("alice"), Tok("bob")}, [team_id : {1, 2}])
    \/ CreateTask({Tok("alice")}, [sprint_id : {1, 2}, assignee_id : {Null},
                                   priority : {"medium"}])
    \/ UpdateTask(MoveTokens, {1, 2}, MoveBodies)

SpecMove == Init /\ [][NextMove]_vars

\* C29: after a successful update_task the task's sprint_id is null or the
\* id of an existing sprint, and when the caller is a student that sprint
\* belongs to a team in which the caller has an active membership.
C29_SprintStaysInTeam ==
    (last.op = "update_task" /\ last.code = 200 /\ last.id \in DOMAIN tasks)
      => LET sprint_id == tasks[last.id].sprint_id IN
         \/ sprint_id = NullId
         \/ /\ sprint_id \in DOMAIN sprints
            /\ StudentRole(Caller(last))
                  => ActiveRow(sprints[sprint_id].team_id, Caller(last))

\* ---------------------------------------------------------------------
\* SpecInterleave: alice opens a sprint; create_task requests of alice run
\* as a read step and a commit step, and membership deactivations and
\* delete_sprint run before, between and after those steps.
\* ---------------------------------------------------------------------
InterleaveBodies == [sprint_id : {1, 2}, assignee_id : {Null, "frank"}, priority : {"medium"}]

NextInterleave ==
    \/ CreateSprint({Tok("alice")}, [team_id : {1}])
    \/ CreateTaskRead(Workers, {Tok("alice"), Tok("bob")}, InterleaveBodies)
    \/ CreateTaskCommit(Workers)
    \/ DeactivateMember({"alice", "frank"})
    \/ DeleteSprint({Tok("alice")}, {1, 2})

SpecInterleave == Init /\ [][NextInterleave]_vars

\* the last request was a create_task that has just added its row
TaskJustAdded ==
    /\ last.op = "create_task"
    /\ last.code = 201

\* C30 as stated: at the moment a create_task row is committed, its sprint
\* exists, and the creator and the assignee, if set, are active members of
\* the sprint's team.
C30_CheckCommitConsistent ==
    TaskJustAdded =>
        /\ last.id \in DOMAIN sprints
        /\ ActiveRow(sprints[last.id].team_id, Caller(last))
        /\ last.body.assignee_id # Null
              => ActiveRow(sprints[last.id].team_id, last.body.assignee_id)

\* a TeamMember row with that team, that student and is_active = TRUE among
\* the rows a request read
ActiveRowIn(rows, team_id, user_id) ==
    [team_id |-> team_id, student_id |-> user_id, is_active |-> TRUE] \in rows

\* C30 amended: for every Task row added by create_task the sprint exists at
\* the moment the row is committed, and the creator and the assignee, if
\* set, were active members of the sprint's team at the moment of the
\* handler's checks; a membership deactivated between the checks and the
\* commit is not checked again.
C30_CheckedAtRead ==
    /\ TaskJustAdded =>
          /\ last.id \in DOMAIN sprints
          /\ last.resp.task_id \in DOMAIN tasks
          /\ tasks[last.resp.task_id].sprint_id = last.id
    /\ \A w \in Workers :
          (inflight[w].op = "create_task" /\ inflight[w].code = 201)
            => LET q == inflight[w] IN
               /\ ActiveRowIn(q.loaded.members, q.loaded.team_id, q.tok.sub)
               /\ q.body.assignee_id # Null
                     => ActiveRowIn(q.loaded.members, q.loaded.team_id,
                                    q.body.assignee_id)

\* alice's create_task passed its checks, her membership was deactivated,
\* and the request then committed the row, assigned to frank
C30_Witness ==
    /\ TaskJustAdded
    /\ last.tok = Tok("alice")
    /\ last.body.assignee_id = "frank"
    /\ last.id \in DOMAIN sprints
    /\ ~ActiveRow(sprints[last.id].team_id, "alice")
    /\ ActiveRow(sprints[last.id].team_id, "frank")
    /\ last.resp.task_id \in DOMAIN tasks

====
